---- MODULE Spec2Model ----
(***************************************************************************)
(* A model of the token-budgeted summarisation core of TLDR:               *)
(*   - src/src/tldr/ai/tokenizer.py      segment_text, _binary_search_split *)
(*   - src/src/tldr/utils/rate_limiter.py RateLimiter                       *)
(*   - src/src/tldr/ai/summarizer.py      Summarizer                        *)
(*   - src/src/tldr/calendar/events.py    detect_events and the links       *)
(* Texts are sequences of one-character strings.  Python's 0-based slice   *)
(* text[a:b] is SubSeq(text, a + 1, b).                                     *)
(***************************************************************************)
EXTENDS Integers, Sequences, FiniteSets, TLC

VARIABLES
    \* ---- segment_text / _binary_search_split (tokenizer.py) ----
    text,              \* argument text of segment_text
    max_tokens,        \* argument max_tokens
    response_buffer,   \* argument response_buffer
    context_buffer,    \* argument context_buffer
    previous_context,  \* argument previous_context
    seg_pc,            \* "call" | "split" | "done" | "recursion_error"
    available_tokens,  \* max_tokens of _binary_search_split (line 68)
    remaining,         \* the text argument of the pending recursive call
    segments,          \* the chunks emitted so far, in order
    depth,             \* number of _binary_search_split frames entered
    \* ---- RateLimiter (rate_limiter.py) ----
    now,               \* the clock read by time.time(), in seconds
    tokens_per_minute, \* RateLimiter.tokens_per_minute
    tokens_used,       \* RateLimiter._tokens_used
    window_start,      \* RateLimiter._window_start
    lock,              \* holder of RateLimiter._lock, or NoOne
    async_lock,        \* RateLimiter._async_lock: Absent (None), NoOne (free) or its holder
    pc,                \* per caller: where it stands inside acquire / acquire_async
    tokens,            \* per caller: the argument tokens of the call in progress
    wake_at,           \* per caller: the clock value at which its sleep is over
    loaded,            \* per caller: _tokens_used as loaded by the += of line 52 / 76
    over_quota,        \* per caller: the test of line 42 / 67 was true in this call
    cycles,            \* per caller: sleep-and-reset cycles of the call in progress
    ncalls,            \* per caller: calls of acquire / acquire_async returned
    last_remaining,    \* the value tokens_remaining returned last
    granted,           \* tokens granted since _tokens_used was last set to 0
    call_log,          \* the calls entered: <<clock value read at line 27, tokens>>
    grant_log,         \* the grants made: <<clock value at the grant, tokens>>
    history,           \* whether this run records call_log and grant_log
    \* ---- Summarizer (summarizer.py) ----
    sum_pc,            \* where summarize stands
    chunks,            \* chunks, the result of segment_text (line 87)
    chunk_i,           \* i of the loop of line 100
    prompt,            \* the prompt of the _call_openai in progress
    call_kind,         \* "chunk" or "final": which call of summarize it is
    attempt,           \* attempt number of the retry decorator, from 1
    chunk_summaries,   \* chunk_summaries (line 97)
    total_tokens,      \* total_tokens (line 98)
    final_summary,     \* final_summary (lines 112, 115)
    outbound,          \* calls of chat.completions.create made so far
    \* ---- event detection (calendar/events.py) ----
    cal_op,            \* the function called
    cal_text,          \* argument text, as its sequence of lines
    duration_hours,    \* argument duration_hours of generate_calendar_link
    cal_pc,            \* where the call stands
    matches,           \* matches (line 36)
    match_i,           \* position of the loop of line 39 in matches
    events,            \* events (line 38)
    event_i,           \* position of the loop of line 116 in events
    cal_result         \* the value returned

segVars == <<text, max_tokens, response_buffer, context_buffer,
             previous_context, seg_pc, available_tokens, remaining,
             segments, depth>>

rlVars == <<now, tokens_per_minute, tokens_used, window_start, lock,
            async_lock, pc, tokens, wake_at, loaded, over_quota, cycles,
            ncalls, last_remaining, granted, call_log, grant_log, history>>

sumVars == <<sum_pc, chunks, chunk_i, prompt, call_kind, attempt,
             chunk_summaries, total_tokens, final_summary, outbound>>

calVars == <<cal_op, cal_text, duration_hours, cal_pc, matches, match_i,
             events, event_i, cal_result>>

vars == <<segVars, rlVars, sumVars, calVars>>

(***************************************************************************)
(* Bounds of the model.                                                    *)
(***************************************************************************)
MaxLen == 5            \* longest input text, in characters
MaxBudget == 3         \* largest max_tokens tried
MaxBuffer == 1         \* largest response_buffer / context_buffer tried
MergeLen == 2          \* letters the tokenizer packs into one token
RecursionLimit == 8    \* frames before the interpreter raises RecursionError
MaxQuota == 2          \* largest tokens_per_minute tried
MaxRequest == 3        \* largest tokens argument of acquire tried
MaxCalls == 2          \* calls of acquire each caller makes
TickStep == 20         \* seconds the clock advances in one step
SummarizerQuota == 8   \* token_limit_per_minute of the summarizer runs
MaxEmailLen == 3       \* longest email_content of the summarizer runs
MaxTime == 80          \* the clock stops here unless a sleeper still waits

(***************************************************************************)
(* Characters.  "a" is a letter, "#" a character the tokenizer needs two   *)
(* tokens for (an emoji, a rare code point).                               *)
(***************************************************************************)
Alphabet == {"a", " ", ".", "#"}
Letters == {"a"}
Whitespace == {" ", "\n"}
Boundary == {" ", "\n", ".", "!", "?"}
BackWindow == 50

RECURSIVE SeqsUpTo(_, _)
SeqsUpTo(S, n) ==
    IF n = 0 THEN {<<>>}
    ELSE LET shorter == SeqsUpTo(S, n - 1)
         IN  shorter \cup {Append(s, c) : s \in {t \in shorter : Len(t) = n - 1}, c \in S}

Texts == SeqsUpTo(Alphabet, MaxLen)
Contexts == {<<>>, <<"a">>}

Max(a, b) == IF a >= b THEN a ELSE b

\* Python slice t[a:b] for 0 <= a, b (clamped to the length like Python does).
Slice(t, a, b) == SubSeq(t, a + 1, IF b > Len(t) THEN Len(t) ELSE b)

(***************************************************************************)
(* count_tokens: the number of tokens the encoding gives a text.  The      *)
(* encoding itself is the external tiktoken library; it is modelled by a   *)
(* deterministic greedy encoding with the features that matter to the      *)
(* splitter: a token packs up to MergeLen letters, a space in front of a   *)
(* letter joins that letter's token, and one character can cost more than  *)
(* one token.  CountFrom(t, i, run) counts t[i..], where run is the number *)
(* of letters already in the token that is open.                           *)
(***************************************************************************)
RECURSIVE CountFrom(_, _, _)
CountFrom(t, i, run) ==
    IF i > Len(t) THEN 0
    ELSE IF t[i] \in Letters
         THEN IF run = 0 \/ run >= MergeLen
              THEN 1 + CountFrom(t, i + 1, 1)
              ELSE CountFrom(t, i + 1, run + 1)
    ELSE IF t[i] = "#" THEN 2 + CountFrom(t, i + 1, 0)
    ELSE IF t[i] = " " /\ i < Len(t) /\ t[i + 1] \in Letters
         THEN 1 + CountFrom(t, i + 2, 1)
    ELSE 1 + CountFrom(t, i + 1, 0)

count_tokens(t) == CountFrom(t, 1, 0)

(***************************************************************************)
(* str.strip(): drop leading and trailing whitespace.                      *)
(***************************************************************************)
RECURSIVE LStrip(_)
LStrip(t) ==
    IF t # <<>> /\ Head(t) \in Whitespace THEN LStrip(Tail(t)) ELSE t

RECURSIVE RStrip(_)
RStrip(t) ==
    IF t # <<>> /\ t[Len(t)] \in Whitespace
    THEN RStrip(SubSeq(t, 1, Len(t) - 1)) ELSE t

Strip(t) == RStrip(LStrip(t))

(***************************************************************************)
(* The while loop of _binary_search_split (lines 86-99), from the state    *)
(* (low, high, mid_point) at the loop test to the final mid_point.         *)
(***************************************************************************)
RECURSIVE SearchLoop(_, _, _, _, _)
SearchLoop(t, limit, low, high, mid_point) ==
    IF ~(low < mid_point) THEN mid_point
    ELSE LET over == count_tokens(Slice(t, low, mid_point)) > limit
             high2 == IF over THEN mid_point ELSE high
             low2 == IF over THEN low ELSE mid_point
             new_mid == (low2 + high2) \div 2
         IN  IF new_mid = mid_point THEN mid_point
             ELSE SearchLoop(t, limit, low2, high2, new_mid)

MidPoint(t, limit) == SearchLoop(t, limit, 0, Len(t), (0 + Len(t)) \div 2)

(***************************************************************************)
(* Lines 102-106: walk back from mid_point over range(mid_point,           *)
(* max(0, mid_point - 50), -1) to the nearest boundary character.          *)
(***************************************************************************)
BreakPoint(t, mid_point) ==
    LET stop == Max(0, mid_point - BackWindow)
        hits == {i \in (stop + 1)..mid_point : t[i + 1] \in Boundary}
    IN  IF hits = {} THEN mid_point
        ELSE (CHOOSE i \in hits : \A j \in hits : j <= i) + 1

\* Line 108: the chunk emitted, and line 109: the text left for the recursion.
SplitHead(t, break_point) == Strip(Slice(t, 0, break_point))
SplitRestSkipsOne(t, break_point) == Strip(Slice(t, break_point + 1, Len(t)))
SplitRest(t, break_point) == Strip(Slice(t, break_point, Len(t)))

\* Lines 55-61: the reserve total and the token count tested at line 64.
TotalBuffer(rb, cb, ctx) == IF ctx # <<>> THEN rb + cb ELSE rb
CombinedTokensIgnoresContext(t, ctx) == count_tokens(t)
CombinedTokens(t, ctx) ==
    IF ctx # <<>> THEN count_tokens(t) + count_tokens(ctx) ELSE count_tokens(t)

\* Line 64: the single-segment test of segment_text.
FitsSingleStrict(t, mt, rb, ctx) == CombinedTokens(t, ctx) < mt - rb
FitsSingle(t, mt, rb, ctx) == CombinedTokens(t, ctx) <= mt - rb

\* Line 83: the test that ends the recursion of _binary_search_split.
FitsBudget(t, limit) == count_tokens(t) <= limit

\* One frame of _binary_search_split(t, limit), lines 83-111: the chunk it
\* puts first, the text it hands to the recursive call, and whether it
\* makes that call.
Frame(t, limit) ==
    IF FitsBudget(t, limit)
    THEN [chunk |-> t, rest |-> <<>>, more |-> FALSE]
    ELSE LET break_point == BreakPoint(t, MidPoint(t, limit))
             rest == SplitRest(t, break_point)
         IN  [chunk |-> SplitHead(t, break_point), rest |-> rest,
              more |-> rest # <<>>]

\* _binary_search_split(t, limit) as a whole, with frames frames left before
\* the interpreter raises RecursionError (ok = FALSE).
RECURSIVE SplitFrames(_, _, _)
SplitFrames(t, limit, frames) ==
    IF frames = 0 THEN [ok |-> FALSE, chunks |-> <<>>]
    ELSE LET f == Frame(t, limit)
         IN  IF f.more
             THEN LET r == SplitFrames(f.rest, limit, frames - 1)
                  IN  [ok |-> r.ok, chunks |-> <<f.chunk>> \o r.chunks]
             ELSE [ok |-> TRUE, chunks |-> <<f.chunk>>]

\* segment_text as a whole, lines 55-69.
SegmentTextResult(t, mt, rb, cb, ctx) ==
    IF FitsSingle(t, mt, rb, ctx)
    THEN [ok |-> TRUE, chunks |-> <<t>>]
    ELSE SplitFrames(t, mt - TotalBuffer(rb, cb, ctx), RecursionLimit)

(***************************************************************************)
(* RateLimiter.  Threads call the blocking acquire and tokens_remaining    *)
(* under _lock; Tasks call acquire_async under _async_lock.                *)
(***************************************************************************)
Threads == {"t1", "t2"}
Tasks == {"a1"}
Callers == Threads \cup Tasks
NoOne == "free"
Absent == "None"
WindowSeconds == 60
Requests == 0..MaxRequest

\* Line 28: the test of _reset_if_needed, on the clock value t it read.
ResetDueEarly(t, start) == t - start >= WindowSeconds - TickStep
ResetDue(t, start) == t - start >= WindowSeconds

\* Lines 42 and 67: would the grant push the window over the quota?
WouldExceedAtQuota(used, n, quota) == used + n >= quota
WouldExceed(used, n, quota) == used + n > quota

\* Lines 44-45 and 68-69: the time to sleep, from the clock value t.
SleepTime(t, start) == Max(0, WindowSeconds - (t - start))

\* Lines 47 and 71: the sleep and the reset happen only for a positive wait.
MustSleep(sleep_time) == sleep_time > 0

\* Line 83: the value of tokens_remaining.
RemainingUnclamped(quota, used) == quota - used
Remaining(quota, used) == Max(0, quota - used)

\* RateLimiter(tokens_per_minute = quota), lines 19-23, at clock value 0.
LimiterFresh(quota) ==
    /\ now = 0
    /\ tokens_per_minute = quota
    /\ tokens_used = 0
    /\ window_start = now
    /\ lock = NoOne
    /\ async_lock = Absent
    /\ pc = [c \in Callers |-> "idle"]
    /\ tokens = [c \in Callers |-> 0]
    /\ wake_at = [c \in Callers |-> 0]
    /\ loaded = [c \in Callers |-> 0]
    /\ over_quota = [c \in Callers |-> FALSE]
    /\ cycles = [c \in Callers |-> 0]
    /\ ncalls = [c \in Callers |-> 0]
    /\ last_remaining = 0
    /\ granted = 0
    /\ call_log = <<>>
    /\ grant_log = <<>>

\* The limiter as it stands in a run that does not use it.
LimiterInit == LimiterFresh(MaxQuota)

LimiterUnused ==
    /\ LimiterInit
    /\ history = FALSE

SegmentUnused ==
    /\ text = <<>>
    /\ max_tokens = 0
    /\ response_buffer = 0
    /\ context_buffer = 0
    /\ previous_context = <<>>
    /\ seg_pc = "done"
    /\ available_tokens = 0
    /\ remaining = <<>>
    /\ segments = <<>>
    /\ depth = 0

SummarizerFresh ==
    /\ chunks = <<>>
    /\ chunk_i = 0
    /\ prompt = <<>>
    /\ call_kind = "chunk"
    /\ attempt = 0
    /\ chunk_summaries = <<>>
    /\ total_tokens = 0
    /\ final_summary = <<>>
    /\ outbound = 0

SummarizerUnused == SummarizerFresh /\ sum_pc = "unused"

CalendarUnused ==
    /\ cal_op = "unused"
    /\ cal_text = <<>>
    /\ duration_hours = 0
    /\ cal_pc = "unused"
    /\ matches = <<>>
    /\ match_i = 0
    /\ events = <<>>
    /\ event_i = 0
    /\ cal_result = <<>>

\* acquire, lines 39-40, called with tokens = n: take _lock, then
\* _reset_if_needed (lines 27-30).
EnterAcquire(p, n) ==
    /\ pc[p] = "idle"
    /\ lock = NoOne
    /\ lock' = p
    /\ tokens' = [tokens EXCEPT ![p] = n]
    /\ over_quota' = [over_quota EXCEPT ![p] = FALSE]
    /\ cycles' = [cycles EXCEPT ![p] = 0]
    /\ call_log' = IF history THEN Append(call_log, <<now, n>>) ELSE call_log
    /\ IF ResetDue(now, window_start)
       THEN tokens_used' = 0 /\ window_start' = now /\ granted' = 0
       ELSE UNCHANGED <<tokens_used, window_start, granted>>
    /\ pc' = [pc EXCEPT ![p] = "check"]
    /\ UNCHANGED <<now, tokens_per_minute, async_lock, wake_at, loaded, ncalls,
                   last_remaining, grant_log, history>>

\* A thread calls acquire(n).
AcquireEnter(p, n) ==
    /\ ncalls[p] < MaxCalls
    /\ EnterAcquire(p, n)
    /\ UNCHANGED <<segVars, sumVars, calVars>>

\* acquire, line 42.
AcquireCheck(p) ==
    /\ pc[p] = "check"
    /\ IF WouldExceed(tokens_used, tokens[p], tokens_per_minute)
       THEN /\ pc' = [pc EXCEPT ![p] = "elapsed"]
            /\ over_quota' = [over_quota EXCEPT ![p] = TRUE]
       ELSE /\ pc' = [pc EXCEPT ![p] = "add"]
            /\ UNCHANGED over_quota
    /\ UNCHANGED <<now, tokens_per_minute, tokens_used, window_start, lock,
                   async_lock, tokens, wake_at, loaded, cycles, ncalls,
                   last_remaining, granted, call_log, grant_log>>
    /\ UNCHANGED <<segVars, sumVars, calVars, history>>

\* acquire, lines 44-48: read the clock again, compute the wait, go to sleep
\* holding _lock if the wait is positive.
AcquireElapsedReleasesLock(p) ==
    /\ pc[p] = "elapsed"
    /\ LET sleep_time == SleepTime(now, window_start)
       IN  IF MustSleep(sleep_time)
           THEN /\ pc' = [pc EXCEPT ![p] = "sleep"]
                /\ wake_at' = [wake_at EXCEPT ![p] = now + sleep_time]
                /\ lock' = NoOne
           ELSE /\ pc' = [pc EXCEPT ![p] = "add"]
                /\ UNCHANGED <<wake_at, lock>>
    /\ UNCHANGED <<now, tokens_per_minute, tokens_used, window_start,
                   async_lock, tokens, loaded, over_quota, cycles, ncalls,
                   last_remaining, granted, call_log, grant_log>>
    /\ UNCHANGED <<segVars, sumVars, calVars, history>>

AcquireElapsed(p) ==
    /\ pc[p] = "elapsed"
    /\ LET sleep_time == SleepTime(now, window_start)
       IN  IF MustSleep(sleep_time)
           THEN /\ pc' = [pc EXCEPT ![p] = "sleep"]
                /\ wake_at' = [wake_at EXCEPT ![p] = now + sleep_time]
           ELSE /\ pc' = [pc EXCEPT ![p] = "add"]
                /\ UNCHANGED wake_at
    /\ UNCHANGED <<now, tokens_per_minute, tokens_used, window_start, lock,
                   async_lock, tokens, loaded, over_quota, cycles, ncalls,
                   last_remaining, granted, call_log, grant_log>>
    /\ UNCHANGED <<segVars, sumVars, calVars, history>>

\* acquire, lines 48-50: time.sleep returns once the wait has passed; the
\* window is reset on the clock value read then.
AcquireWake(p) ==
    /\ pc[p] = "sleep"
    /\ now >= wake_at[p]
    /\ tokens_used' = 0
    /\ window_start' = now
    /\ granted' = 0
    /\ cycles' = [cycles EXCEPT ![p] = @ + 1]
    /\ pc' = [pc EXCEPT ![p] = "add"]
    /\ UNCHANGED <<now, tokens_per_minute, lock, async_lock, tokens, wake_at,
                   loaded, over_quota, ncalls, last_remaining, call_log,
                   grant_log>>
    /\ UNCHANGED <<segVars, sumVars, calVars, history>>

\* acquire, line 52: the += loads _tokens_used ...
AcquireLoad(p) ==
    /\ pc[p] = "add"
    /\ loaded' = [loaded EXCEPT ![p] = tokens_used]
    /\ pc' = [pc EXCEPT ![p] = "store"]
    /\ UNCHANGED <<now, tokens_per_minute, tokens_used, window_start, lock,
                   async_lock, tokens, wake_at, over_quota, cycles, ncalls,
                   last_remaining, granted, call_log, grant_log>>
    /\ UNCHANGED <<segVars, sumVars, calVars, history>>

\* ... and stores the sum; leaving the with block releases _lock.
AcquireStore(p) ==
    /\ pc[p] = "store"
    /\ tokens_used' = loaded[p] + tokens[p]
    /\ granted' = granted + tokens[p]
    /\ grant_log' = IF history THEN Append(grant_log, <<now, tokens[p]>>) ELSE grant_log
    /\ lock' = NoOne
    /\ ncalls' = [ncalls EXCEPT ![p] = @ + 1]
    /\ pc' = [pc EXCEPT ![p] = "idle"]
    /\ UNCHANGED <<now, tokens_per_minute, window_start, async_lock, tokens,
                   wake_at, loaded, over_quota, cycles, last_remaining,
                   call_log>>
    /\ UNCHANGED <<segVars, sumVars, calVars, history>>

\* tokens_remaining, lines 81-83: under _lock, _reset_if_needed and the read.
TokensRemaining(p) ==
    /\ pc[p] = "idle"
    /\ lock = NoOne
    /\ IF ResetDue(now, window_start)
       THEN /\ tokens_used' = 0 /\ window_start' = now /\ granted' = 0
            /\ last_remaining' = Remaining(tokens_per_minute, 0)
       ELSE /\ UNCHANGED <<tokens_used, window_start, granted>>
            /\ last_remaining' = Remaining(tokens_per_minute, tokens_used)
    /\ UNCHANGED <<now, tokens_per_minute, lock, async_lock, pc, tokens,
                   wake_at, loaded, over_quota, cycles, ncalls, call_log,
                   grant_log>>
    /\ UNCHANGED <<segVars, sumVars, calVars, history>>

\* acquire_async, lines 61-65: create _async_lock on first use, take it,
\* then _reset_if_needed.
AsyncEnter(a, n) ==
    /\ pc[a] = "idle"
    /\ ncalls[a] < MaxCalls
    /\ async_lock \in {Absent, NoOne}
    /\ async_lock' = a
    /\ tokens' = [tokens EXCEPT ![a] = n]
    /\ over_quota' = [over_quota EXCEPT ![a] = FALSE]
    /\ cycles' = [cycles EXCEPT ![a] = 0]
    /\ call_log' = IF history THEN Append(call_log, <<now, n>>) ELSE call_log
    /\ IF ResetDue(now, window_start)
       THEN tokens_used' = 0 /\ window_start' = now /\ granted' = 0
       ELSE UNCHANGED <<tokens_used, window_start, granted>>
    /\ pc' = [pc EXCEPT ![a] = "check"]
    /\ UNCHANGED <<now, tokens_per_minute, lock, wake_at, loaded, ncalls,
                   last_remaining, grant_log>>
    /\ UNCHANGED <<segVars, sumVars, calVars, history>>

\* acquire_async, line 67.
AsyncCheck(a) ==
    /\ pc[a] = "check"
    /\ IF WouldExceed(tokens_used, tokens[a], tokens_per_minute)
       THEN /\ pc' = [pc EXCEPT ![a] = "elapsed"]
            /\ over_quota' = [over_quota EXCEPT ![a] = TRUE]
       ELSE /\ pc' = [pc EXCEPT ![a] = "add"]
            /\ UNCHANGED over_quota
    /\ UNCHANGED <<now, tokens_per_minute, tokens_used, window_start, lock,
                   async_lock, tokens, wake_at, loaded, cycles, ncalls,
                   last_remaining, granted, call_log, grant_log>>
    /\ UNCHANGED <<segVars, sumVars, calVars, history>>

\* acquire_async, lines 68-72.
AsyncElapsed(a) ==
    /\ pc[a] = "elapsed"
    /\ LET sleep_time == SleepTime(now, window_start)
       IN  IF MustSleep(sleep_time)
           THEN /\ pc' = [pc EXCEPT ![a] = "sleep"]
                /\ wake_at' = [wake_at EXCEPT ![a] = now + sleep_time]
           ELSE /\ pc' = [pc EXCEPT ![a] = "add"]
                /\ UNCHANGED wake_at
    /\ UNCHANGED <<now, tokens_per_minute, tokens_used, window_start, lock,
                   async_lock, tokens, loaded, over_quota, cycles, ncalls,
                   last_remaining, granted, call_log, grant_log>>
    /\ UNCHANGED <<segVars, sumVars, calVars, history>>

\* acquire_async, lines 72-74.
AsyncWake(a) ==
    /\ pc[a] = "sleep"
    /\ now >= wake_at[a]
    /\ tokens_used' = 0
    /\ window_start' = now
    /\ granted' = 0
    /\ cycles' = [cycles EXCEPT ![a] = @ + 1]
    /\ pc' = [pc EXCEPT ![a] = "add"]
    /\ UNCHANGED <<now, tokens_per_minute, lock, async_lock, tokens, wake_at,
                   loaded, over_quota, ncalls, last_remaining, call_log,
                   grant_log>>
    /\ UNCHANGED <<segVars, sumVars, calVars, history>>

\* acquire_async, line 76: the load of the += ...
AsyncLoad(a) ==
    /\ pc[a] = "add"
    /\ loaded' = [loaded EXCEPT ![a] = tokens_used]
    /\ pc' = [pc EXCEPT ![a] = "store"]
    /\ UNCHANGED <<now, tokens_per_minute, tokens_used, window_start, lock,
                   async_lock, tokens, wake_at, over_quota, cycles, ncalls,
                   last_remaining, granted, call_log, grant_log>>
    /\ UNCHANGED <<segVars, sumVars, calVars, history>>

\* ... and its store; leaving the async with block releases _async_lock.
AsyncStore(a) ==
    /\ pc[a] = "store"
    /\ tokens_used' = loaded[a] + tokens[a]
    /\ granted' = granted + tokens[a]
    /\ grant_log' = IF history THEN Append(grant_log, <<now, tokens[a]>>) ELSE grant_log
    /\ async_lock' = NoOne
    /\ ncalls' = [ncalls EXCEPT ![a] = @ + 1]
    /\ pc' = [pc EXCEPT ![a] = "idle"]
    /\ UNCHANGED <<now, tokens_per_minute, window_start, lock, tokens,
                   wake_at, loaded, over_quota, cycles, last_remaining,
                   call_log>>
    /\ UNCHANGED <<segVars, sumVars, calVars, history>>

\* Time passes.  The clock is capped at MaxTime, but never while a caller
\* sleeps: a sleep always ends.
Tick ==
    /\ \/ now < MaxTime
       \/ \E c \in Callers : pc[c] = "sleep" /\ now < wake_at[c]
    /\ now' = now + TickStep
    /\ UNCHANGED <<tokens_per_minute, tokens_used, window_start, lock,
                   async_lock, pc, tokens, wake_at, loaded, over_quota, cycles,
                   ncalls, last_remaining, granted, call_log, grant_log>>
    /\ UNCHANGED <<segVars, sumVars, calVars, history>>

ThreadStep(p) ==
    \/ \E n \in Requests : AcquireEnter(p, n)
    \/ AcquireCheck(p)
    \/ AcquireElapsed(p)
    \/ AcquireWake(p)
    \/ AcquireLoad(p)
    \/ AcquireStore(p)
    \/ TokensRemaining(p)

TaskStep(a) ==
    \/ \E n \in Requests : AsyncEnter(a, n)
    \/ AsyncCheck(a)
    \/ AsyncElapsed(a)
    \/ AsyncWake(a)
    \/ AsyncLoad(a)
    \/ AsyncStore(a)

InitLimiter ==
    /\ LimiterInit /\ SegmentUnused /\ SummarizerUnused /\ CalendarUnused
    /\ history = FALSE
InitSingleCaller ==
    /\ LimiterInit /\ SegmentUnused /\ SummarizerUnused /\ CalendarUnused
    /\ history = TRUE

\* One thread calling acquire and tokens_remaining.
NextSingleCaller == ThreadStep("t1") \/ Tick
SpecSingleCaller == InitSingleCaller /\ [][NextSingleCaller]_vars

\* Two threads sharing the limiter through the blocking calls.
NextBlocking == (\E p \in Threads : ThreadStep(p)) \/ Tick
SpecBlocking == InitLimiter /\ [][NextBlocking]_vars

\* The same, with every caller inside acquire scheduled fairly and the
\* clock running.
InsideAcquire(p) ==
    AcquireCheck(p) \/ AcquireElapsed(p) \/ AcquireWake(p) \/ AcquireLoad(p)
        \/ AcquireStore(p)
SpecBlockingFair ==
    /\ SpecBlocking
    /\ WF_vars(Tick)
    /\ \A p \in Threads : WF_vars(InsideAcquire(p))

\* A thread in acquire and an event-loop task in acquire_async.
NextMixed == ThreadStep("t1") \/ (\E a \in Tasks : TaskStep(a)) \/ Tick
SpecMixed == InitLimiter /\ [][NextMixed]_vars

(***************************************************************************)
(* Initial states: a call segment_text(text, max_tokens, response_buffer,  *)
(* context_buffer, previous_context) about to run.                         *)
(***************************************************************************)
InitSegment ==
    /\ text \in Texts
    /\ max_tokens \in 0..MaxBudget
    /\ response_buffer \in 0..MaxBuffer
    /\ previous_context \in Contexts
    \* context_buffer is read only when there is a previous context (line 57)
    /\ context_buffer \in (IF previous_context = <<>> THEN {0} ELSE 0..MaxBuffer)
    /\ seg_pc = "call"
    /\ available_tokens = 0
    /\ remaining = <<>>
    /\ segments = <<>>
    /\ depth = 0
    /\ LimiterUnused
    /\ SummarizerUnused
    /\ CalendarUnused

\* segment_text, lines 55-69.
SegmentText ==
    /\ seg_pc = "call"
    /\ IF FitsSingle(text, max_tokens, response_buffer, previous_context)
       THEN /\ segments' = <<text>>
            /\ seg_pc' = "done"
            /\ UNCHANGED <<available_tokens, remaining>>
       ELSE /\ available_tokens' =
                   max_tokens - TotalBuffer(response_buffer, context_buffer,
                                            previous_context)
            /\ remaining' = text
            /\ seg_pc' = "split"
            /\ UNCHANGED segments
    /\ UNCHANGED <<text, max_tokens, response_buffer, context_buffer,
                   previous_context, depth>>
    /\ UNCHANGED <<rlVars, sumVars, calVars>>

\* One frame of _binary_search_split, lines 83-114.  The recursive call of
\* line 112 is the next BinarySearchSplit step; segments.extend of the
\* returning frames is the concatenation kept in segments.
BinarySearchSplit ==
    /\ seg_pc = "split"
    /\ depth < RecursionLimit
    /\ depth' = depth + 1
    /\ LET f == Frame(remaining, available_tokens)
       IN  /\ segments' = Append(segments, f.chunk)
           /\ remaining' = f.rest
           /\ seg_pc' = IF f.more THEN "split" ELSE "done"
    /\ UNCHANGED <<text, max_tokens, response_buffer, context_buffer,
                   previous_context, available_tokens>>
    /\ UNCHANGED <<rlVars, sumVars, calVars>>

\* The recursion of line 112 nested deeper than the interpreter allows:
\* Python raises RecursionError and segment_text returns nothing.
RecursionError ==
    /\ seg_pc = "split"
    /\ depth >= RecursionLimit
    /\ seg_pc' = "recursion_error"
    /\ UNCHANGED <<text, max_tokens, response_buffer, context_buffer,
                   previous_context, available_tokens, remaining, segments,
                   depth>>
    /\ UNCHANGED <<rlVars, sumVars, calVars>>

NextSegment == SegmentText \/ BinarySearchSplit \/ RecursionError

SpecSegment == InitSegment /\ [][NextSegment]_vars

(***************************************************************************)
(* Summarizer.  One thread, "t1", runs summarize; its limiter is the       *)
(* RateLimiter above.  The instruction texts of the prompts are single     *)
(* symbols (one token each); the chunk and the summaries are spelled out.  *)
(***************************************************************************)
StopAfterAttempt == 6

\* stop_after_attempt(6), line 51: whether the retry decorator gives up after
\* the attempt with this number has failed.
StopReachedLate(attempt_number) == attempt_number > StopAfterAttempt
StopReached(attempt_number) == attempt_number >= StopAfterAttempt

\* Line 109: whether the chunk summaries go through a consolidation call.
NeedsConsolidationAlways(summaries) == Len(summaries) >= 1
NeedsConsolidation(summaries) == Len(summaries) > 1
EmailAlphabet == {"a", "#"}
Responses == {<<>>, <<"a", ".">>}

\* _build_chunk_prompt, lines 122-137.
BuildChunkPrompt(chunk, chunk_num, total_chunks) ==
    <<"Summarize">>
    \o (IF total_chunks > 1
        THEN <<"(Part", ToString(chunk_num), "of", ToString(total_chunks), ")">>
        ELSE <<>>)
    \o <<"Email content:">> \o chunk

\* "\n\n".join(chunk_summaries), line 110.
RECURSIVE JoinSummariesDropsLast(_)
JoinSummariesDropsLast(summaries) ==
    IF Len(summaries) <= 1 THEN <<>>
    ELSE IF Len(summaries) = 2 THEN summaries[1]
    ELSE summaries[1] \o <<"\n", "\n">>
         \o JoinSummariesDropsLast(Tail(summaries))

RECURSIVE JoinSummaries(_)
JoinSummaries(summaries) ==
    IF summaries = <<>> THEN <<>>
    ELSE IF Len(summaries) = 1 THEN summaries[1]
    ELSE summaries[1] \o <<"\n", "\n">> \o JoinSummaries(Tail(summaries))

\* _build_consolidation_prompt, lines 139-149.
BuildConsolidationPrompt(combined_summaries) ==
    <<"Consolidate", "Partial summaries:">> \o combined_summaries

\* Line 63: int(1.5 * n), for a token count n >= 0.
EstimatedTokensCeil(n) == (3 * n + 1) \div 2
EstimatedTokens(n) == (3 * n) \div 2

InitSummarize ==
    /\ text \in SeqsUpTo(EmailAlphabet, MaxEmailLen)
    /\ max_tokens \in 1..MaxBudget
    /\ response_buffer = 0
    /\ context_buffer = 0
    /\ previous_context = <<>>
    /\ seg_pc = "done"
    /\ available_tokens = 0
    /\ remaining = <<>>
    /\ segments = <<>>
    /\ depth = 0
    /\ LimiterFresh(SummarizerQuota)
    /\ history = FALSE
    /\ SummarizerFresh
    /\ sum_pc = "start"
    /\ CalendarUnused

\* summarize, lines 87-98: segment the email; a RecursionError of
\* segment_text propagates.
Summarize ==
    /\ sum_pc = "start"
    /\ LET r == SegmentTextResult(text, max_tokens, response_buffer,
                                  context_buffer, <<>>)
       IN  IF r.ok
           THEN /\ chunks' = r.chunks
                /\ sum_pc' = "loop"
           ELSE /\ chunks' = <<>>
                /\ sum_pc' = "failed"
    /\ chunk_i' = 1
    /\ chunk_summaries' = <<>>
    /\ total_tokens' = 0
    /\ UNCHANGED <<prompt, call_kind, attempt, final_summary, outbound>>
    /\ UNCHANGED <<segVars, rlVars, calVars>>

\* Lines 100-102: the next chunk's prompt is built and _call_openai called.
NextChunk ==
    /\ sum_pc = "loop"
    /\ chunk_i <= Len(chunks)
    /\ prompt' = BuildChunkPrompt(chunks[chunk_i], chunk_i, Len(chunks))
    /\ call_kind' = "chunk"
    /\ attempt' = 1
    /\ sum_pc' = "call"
    /\ UNCHANGED <<chunks, chunk_i, chunk_summaries, total_tokens,
                   final_summary, outbound>>
    /\ UNCHANGED <<segVars, rlVars, calVars>>

\* Lines 109-112: more than one chunk summary: the consolidation call.
Consolidate ==
    /\ sum_pc = "loop"
    /\ chunk_i > Len(chunks)
    /\ NeedsConsolidation(chunk_summaries)
    /\ prompt' = BuildConsolidationPrompt(JoinSummaries(chunk_summaries))
    /\ call_kind' = "final"
    /\ attempt' = 1
    /\ sum_pc' = "call"
    /\ UNCHANGED <<chunks, chunk_i, chunk_summaries, total_tokens,
                   final_summary, outbound>>
    /\ UNCHANGED <<segVars, rlVars, calVars>>

\* Lines 114-120: at most one chunk summary: it is the result.
ReturnSingle ==
    /\ sum_pc = "loop"
    /\ chunk_i > Len(chunks)
    /\ ~NeedsConsolidation(chunk_summaries)
    /\ final_summary' =
           IF chunk_summaries # <<>> THEN chunk_summaries[1] ELSE <<>>
    /\ sum_pc' = "returned"
    /\ UNCHANGED <<chunks, chunk_i, prompt, call_kind, attempt,
                   chunk_summaries, total_tokens, outbound>>
    /\ UNCHANGED <<segVars, rlVars, calVars>>

\* _call_openai, lines 63-64: estimate the cost and enter acquire with it.
CallOpenAIAcquire ==
    /\ sum_pc = "call"
    /\ EnterAcquire("t1", EstimatedTokens(count_tokens(prompt)))
    /\ sum_pc' = "acquire"
    /\ UNCHANGED <<chunks, chunk_i, prompt, call_kind, attempt,
                   chunk_summaries, total_tokens, final_summary, outbound>>
    /\ UNCHANGED <<segVars, calVars>>

\* _call_openai, line 63, count_tokens raises (the encoding cannot be loaded,
\* or encode rejects the prompt): the exception leaves _call_openai inside the
\* retry decorator of lines 49-52, which has no retry= filter and so treats
\* it as any other failed attempt: it waits and runs _call_openai again ...
CountTokensFailsRetry ==
    /\ sum_pc = "call"
    /\ ~StopReached(attempt)
    /\ attempt' = attempt + 1
    /\ UNCHANGED <<sum_pc, chunks, chunk_i, prompt, call_kind,
                   chunk_summaries, total_tokens, final_summary, outbound>>
    /\ UNCHANGED <<segVars, rlVars, calVars>>

\* ... or, after stop_after_attempt(6), raises RetryError out of summarize.
CountTokensFailsLast ==
    /\ sum_pc = "call"
    /\ StopReached(attempt)
    /\ sum_pc' = "failed"
    /\ UNCHANGED <<chunks, chunk_i, prompt, call_kind, attempt,
                   chunk_summaries, total_tokens, final_summary, outbound>>
    /\ UNCHANGED <<segVars, rlVars, calVars>>

\* _call_openai, lines 68-73, the request answers with content r; then
\* summarize, lines 103-104 for a chunk and lines 113-120 for the
\* consolidation.
CreateSucceeds(r) ==
    /\ sum_pc = "acquire"
    /\ pc["t1"] = "idle"
    /\ outbound' = outbound + 1
    /\ total_tokens' = total_tokens + count_tokens(prompt) + count_tokens(r)
    /\ IF call_kind = "chunk"
       THEN /\ chunk_summaries' = Append(chunk_summaries, r)
            /\ chunk_i' = chunk_i + 1
            /\ sum_pc' = "loop"
            /\ UNCHANGED final_summary
       ELSE /\ final_summary' = r
            /\ sum_pc' = "returned"
            /\ UNCHANGED <<chunk_summaries, chunk_i>>
    /\ UNCHANGED <<chunks, prompt, call_kind, attempt>>
    /\ UNCHANGED <<segVars, rlVars, calVars>>

\* _call_openai, lines 68-71, the request raises: the retry decorator
\* (lines 49-52) waits and runs _call_openai again ...
CreateFailsRetryKeepsGrant ==
    /\ sum_pc = "acquire"
    /\ pc["t1"] = "idle"
    /\ ~StopReached(attempt)
    /\ outbound' = outbound + 1
    /\ attempt' = attempt + 1
    /\ UNCHANGED <<sum_pc, chunks, chunk_i, prompt, call_kind,
                   chunk_summaries, total_tokens, final_summary>>
    /\ UNCHANGED <<segVars, rlVars, calVars>>

CreateFailsRetryCounted ==
    /\ sum_pc = "acquire"
    /\ pc["t1"] = "idle"
    /\ ~StopReached(attempt)
    /\ outbound' = outbound + 1
    /\ attempt' = attempt + 1
    /\ sum_pc' = "call"
    /\ total_tokens' = total_tokens + count_tokens(prompt)
    /\ UNCHANGED <<chunks, chunk_i, prompt, call_kind, chunk_summaries,
                   final_summary>>
    /\ UNCHANGED <<segVars, rlVars, calVars>>

CreateFailsRetry ==
    /\ sum_pc = "acquire"
    /\ pc["t1"] = "idle"
    /\ ~StopReached(attempt)
    /\ outbound' = outbound + 1
    /\ attempt' = attempt + 1
    /\ sum_pc' = "call"
    /\ UNCHANGED <<chunks, chunk_i, prompt, call_kind, chunk_summaries,
                   total_tokens, final_summary>>
    /\ UNCHANGED <<segVars, rlVars, calVars>>

\* ... or, after stop_after_attempt(6), raises RetryError out of summarize:
\* nothing in summarize catches it.
CreateFailsLastSkipsChunk ==
    /\ sum_pc = "acquire"
    /\ pc["t1"] = "idle"
    /\ StopReached(attempt)
    /\ outbound' = outbound + 1
    /\ chunk_i' = chunk_i + 1
    /\ sum_pc' = IF call_kind = "chunk" THEN "loop" ELSE "returned"
    /\ UNCHANGED <<chunks, prompt, call_kind, attempt,
                   chunk_summaries, total_tokens, final_summary>>
    /\ UNCHANGED <<segVars, rlVars, calVars>>

CreateFailsLast ==
    /\ sum_pc = "acquire"
    /\ pc["t1"] = "idle"
    /\ StopReached(attempt)
    /\ outbound' = outbound + 1
    /\ sum_pc' = "failed"
    /\ UNCHANGED <<chunks, chunk_i, prompt, call_kind, attempt,
                   chunk_summaries, total_tokens, final_summary>>
    /\ UNCHANGED <<segVars, rlVars, calVars>>

NextSummarize ==
    \/ Summarize
    \/ NextChunk
    \/ Consolidate
    \/ ReturnSingle
    \/ CallOpenAIAcquire
    \/ CountTokensFailsRetry
    \/ CountTokensFailsLast
    \/ AcquireCheck("t1")
    \/ AcquireElapsed("t1")
    \/ AcquireWake("t1")
    \/ AcquireLoad("t1")
    \/ AcquireStore("t1")
    \/ \E r \in Responses : CreateSucceeds(r)
    \/ CreateFailsRetry
    \/ CreateFailsLast
    \/ Tick

\* The program as a whole: summarize, with segment_text and the limiter.
Init == InitSummarize
Next == NextSummarize
Spec == Init /\ [][Next]_vars

(***************************************************************************)
(* Event detection and calendar links (calendar/events.py).  A text is its *)
(* sequence of lines; a line either matches the pattern of line 35, and is *)
(* then given by the four groups of the match, or does not.  The lines     *)
(* tried are written with single spaces, so that the block rebuilt on      *)
(* lines 117-120 is the line itself, and no block is a proper part of      *)
(* another line.  Strings are sequences of characters; a date is           *)
(* <<year, month, day>> and a time <<hour, minute>>, the numbers that the  *)
(* digit groups \d{4}-\d{2}-\d{2} and \d{2}:\d{2} spell.                    *)
(***************************************************************************)
MaxLines == 2
MaxDuration == 2
DefaultDurationHours == 1

NoLink == <<>>
EventName == <<"M", "a", "t", "h", " ", "F", "i", "n", "a", "l">>
EventLocation == <<"R", "o", "o", "m", " ", "2", "0", "4">>
EventDates == {<<2024, 5, 10>>, <<2024, 12, 31>>, <<2024, 13, 1>>,
               <<2023, 2, 29>>}
EventTimes == {<<9, 0>>, <<22, 59>>, <<23, 30>>, <<25, 0>>}

Line(kind, name, date, time, location, href) ==
    [kind |-> kind, name |-> name, date |-> date, time |-> time,
     location |-> location, href |-> href]

PlainLine == Line("plain", <<>>, <<>>, <<>>, <<>>, NoLink)
EventLines ==
    {Line("event", EventName, d, t, EventLocation, NoLink) :
        d \in EventDates, t \in EventTimes}
CalendarTexts == SeqsUpTo(EventLines \cup {PlainLine}, MaxLines)

\* re.findall(pattern, text), lines 35-36: the matching lines, in order.
RECURSIVE FindAll(_)
FindAll(lines) ==
    IF lines = <<>> THEN <<>>
    ELSE (IF Head(lines).kind = "event" THEN <<Head(lines)>> ELSE <<>>)
         \o FindAll(Tail(lines))

IsLeap(year) == (year % 4 = 0 /\ year % 100 # 0) \/ year % 400 = 0

DaysInMonth(year, month) ==
    IF month = 2 THEN (IF IsLeap(year) THEN 29 ELSE 28)
    ELSE IF month \in {4, 6, 9, 11} THEN 30 ELSE 31

\* datetime.strptime(f"{date} {time}", "%Y-%m-%d %H:%M"), line 83: whether
\* the digits name a date and a time; if not it raises ValueError.
Strptime(date, time) ==
    /\ date[1] \in 1..9999
    /\ date[2] \in 1..12
    /\ date[3] \in 1..DaysInMonth(date[1], date[2])
    /\ time[1] \in 0..23
    /\ time[2] \in 0..59

\* start_dt.replace(hour=start_dt.hour + duration_hours), line 84: whether
\* the new hour is one datetime accepts; if not it raises ValueError.
ReplaceHour(hour, duration) == hour + duration \in 0..23

Digits2(n) == <<ToString(n \div 10), ToString(n % 10)>>
Digits4(n) == Digits2(n \div 100) \o Digits2(n % 100)

\* strftime("%Y%m%dT%H%M00"), lines 87-88, of a year of four digits.
Strftime(date, time) ==
    Digits4(date[1]) \o Digits2(date[2]) \o Digits2(date[3]) \o <<"T">>
    \o Digits2(time[1]) \o Digits2(time[2]) \o <<"0", "0">>

\* urllib.parse.quote_plus, as urlencode (line 99) applies it to each key
\* and value: a space becomes "+", letters, digits and "_.-~" stay, and any
\* other ASCII character becomes "%" and its two hexadecimal digits.
PercentEncoded ==
    [c \in {"/", ":", "&", "=", "?", "#"} |->
        CASE c = "/" -> <<"%", "2", "F">>
          [] c = ":" -> <<"%", "3", "A">>
          [] c = "&" -> <<"%", "2", "6">>
          [] c = "=" -> <<"%", "3", "D">>
          [] c = "?" -> <<"%", "3", "F">>
          [] c = "#" -> <<"%", "2", "3">>]

RECURSIVE QuotePlusKeepsSlash(_)
QuotePlusKeepsSlash(str) ==
    IF str = <<>> THEN <<>>
    ELSE (IF Head(str) = " " THEN <<"+">>
          ELSE IF Head(str) \in DOMAIN PercentEncoded \ {"/"}
               THEN PercentEncoded[Head(str)]
          ELSE <<Head(str)>>)
         \o QuotePlusKeepsSlash(Tail(str))

RECURSIVE QuotePlus(_)
QuotePlus(str) ==
    IF str = <<>> THEN <<>>
    ELSE (IF Head(str) = " " THEN <<"+">>
          ELSE IF Head(str) \in DOMAIN PercentEncoded
               THEN PercentEncoded[Head(str)]
          ELSE <<Head(str)>>)
         \o QuotePlus(Tail(str))

\* urllib.parse.urlencode(params), line 99, params a sequence of
\* <<key, value>> pairs.
RECURSIVE Urlencode(_)
Urlencode(params) ==
    IF params = <<>> THEN <<>>
    ELSE QuotePlus(params[1][1]) \o <<"=">> \o QuotePlus(params[1][2])
         \o (IF Len(params) > 1 THEN <<"&">> ELSE <<>>)
         \o Urlencode(Tail(params))

\* generate_calendar_link, lines 83-100.  ok is FALSE when line 83 or line
\* 84 raises ValueError.
GenerateCalendarLink(name, date, time, location, duration) ==
    IF ~Strptime(date, time) \/ ~ReplaceHour(time[1], duration)
    THEN [ok |-> FALSE, link |-> NoLink]
    ELSE LET start_str == Strftime(date, time)
             end_str == Strftime(date, <<time[1] + duration, time[2]>>)
             params ==
                 << <<(<<"a", "c", "t", "i", "o", "n">>),
                      (<<"T", "E", "M", "P", "L", "A", "T", "E">>)>>,
                    <<(<<"t", "e", "x", "t">>), name>>,
                    <<(<<"d", "a", "t", "e", "s">>),
                      start_str \o <<"/">> \o end_str>>,
                    <<(<<"d", "e", "t", "a", "i", "l", "s">>), name>>,
                    <<(<<"l", "o", "c", "a", "t", "i", "o", "n">>),
                      location>> >>
         IN  [ok |-> TRUE,
              link |-> <<"https://calendar.google.com/calendar/render?">>
                       \o Urlencode(params)]

\* result.replace(event_block, html_link), lines 117-131: every line that is
\* the block of the event becomes the link.
ReplaceBlock(lines, event) ==
    [k \in 1..Len(lines) |->
        IF /\ lines[k].kind = "event"
           /\ lines[k].name = event.name
           /\ lines[k].date = event.date
           /\ lines[k].time = event.time
           /\ lines[k].location = event.location
        THEN Line("html_link", event.name, <<>>, <<>>, <<>>, event.href)
        ELSE lines[k]]

InitCalendar ==
    /\ cal_op \in {"detect_events", "replace_events_with_links",
                   "generate_calendar_link"}
    /\ IF cal_op = "generate_calendar_link"
       THEN /\ cal_text \in {<<e>> : e \in EventLines}
            /\ duration_hours \in 1..MaxDuration
       ELSE /\ cal_text \in CalendarTexts
            /\ duration_hours = DefaultDurationHours
    /\ cal_pc = "start"
    /\ matches = <<>>
    /\ match_i = 0
    /\ events = <<>>
    /\ event_i = 0
    /\ cal_result = <<>>
    /\ SegmentUnused
    /\ LimiterUnused
    /\ SummarizerUnused

\* generate_calendar_link called with the groups of one line and a
\* duration, lines 83-100.
GenerateCalendarLinkCall ==
    /\ cal_op = "generate_calendar_link"
    /\ cal_pc = "start"
    /\ LET e == cal_text[1]
           g == GenerateCalendarLink(e.name, e.date, e.time, e.location,
                                     duration_hours)
       IN  IF g.ok
           THEN /\ cal_result' = g.link
                /\ cal_pc' = "returned"
           ELSE /\ cal_result' = <<>>
                /\ cal_pc' = "ValueError"
    /\ UNCHANGED <<cal_op, cal_text, duration_hours, matches, match_i,
                   events, event_i>>
    /\ UNCHANGED <<segVars, rlVars, sumVars>>

\* detect_events, lines 35-38, called directly or on line 113.
DetectEvents ==
    /\ cal_op \in {"detect_events", "replace_events_with_links"}
    /\ cal_pc = "start"
    /\ matches' = FindAll(cal_text)
    /\ match_i' = 1
    /\ events' = <<>>
    /\ cal_pc' = "matches"
    /\ UNCHANGED <<cal_op, cal_text, duration_hours, event_i, cal_result>>
    /\ UNCHANGED <<segVars, rlVars, sumVars>>

\* detect_events, lines 39-57: one match.  A ValueError of
\* generate_calendar_link is caught nowhere and ends the call.
DetectEventsMatch ==
    /\ cal_pc = "matches"
    /\ match_i <= Len(matches)
    /\ LET e == matches[match_i]
           g == GenerateCalendarLink(e.name, e.date, e.time, e.location,
                                     DefaultDurationHours)
       IN  IF g.ok
           THEN /\ events' = Append(events, Line("event", e.name, e.date,
                                                 e.time, e.location, g.link))
                /\ match_i' = match_i + 1
                /\ UNCHANGED cal_pc
           ELSE /\ cal_pc' = "ValueError"
                /\ UNCHANGED <<events, match_i>>
    /\ UNCHANGED <<cal_op, cal_text, duration_hours, matches, event_i,
                   cal_result>>
    /\ UNCHANGED <<segVars, rlVars, sumVars>>

\* detect_events, line 59; for replace_events_with_links then line 114.
DetectEventsReturn ==
    /\ cal_pc = "matches"
    /\ match_i > Len(matches)
    /\ IF cal_op = "detect_events"
       THEN /\ cal_result' = events
            /\ cal_pc' = "returned"
            /\ UNCHANGED event_i
       ELSE /\ cal_result' = cal_text
            /\ cal_pc' = "events"
            /\ event_i' = 1
    /\ UNCHANGED <<cal_op, cal_text, duration_hours, matches, match_i,
                   events>>
    /\ UNCHANGED <<segVars, rlVars, sumVars>>

\* replace_events_with_links, lines 116-131: one event.
ReplaceEvent ==
    /\ cal_pc = "events"
    /\ event_i <= Len(events)
    /\ cal_result' = ReplaceBlock(cal_result, events[event_i])
    /\ event_i' = event_i + 1
    /\ UNCHANGED <<cal_op, cal_text, duration_hours, cal_pc, matches,
                   match_i, events>>
    /\ UNCHANGED <<segVars, rlVars, sumVars>>

\* replace_events_with_links, line 133.
ReplaceEventsReturn ==
    /\ cal_pc = "events"
    /\ event_i > Len(events)
    /\ cal_pc' = "returned"
    /\ UNCHANGED <<cal_op, cal_text, duration_hours, matches, match_i,
                   events, event_i, cal_result>>
    /\ UNCHANGED <<segVars, rlVars, sumVars>>

NextCalendar ==
    \/ GenerateCalendarLinkCall
    \/ DetectEvents
    \/ DetectEventsMatch
    \/ DetectEventsReturn
    \/ ReplaceEvent
    \/ ReplaceEventsReturn

SpecCalendar == InitCalendar /\ [][NextCalendar]_vars

(***************************************************************************)
(* Claims about Summarizer, checked under Spec.                            *)
(***************************************************************************)
\* A step in which chat.completions.create (line 68) is called once.
OutboundAttempt == sum_pc = "acquire" /\ outbound' = outbound + 1

\* C11: one _call_openai invocation makes at most 6 outbound attempts.  Every
\* invocation starts at attempt 1, every outbound attempt belongs to an
\* attempt numbered 1..6, and an attempt either succeeds, and then the
\* invocation returns that response to summarize without a further attempt,
\* or fails and is followed by the attempt with the next number, or is
\* attempt 6 and fails, and then the invocation fails to its caller.
C11_AtMostSixAttempts ==
    [][ /\ (sum_pc = "loop" /\ sum_pc' = "call") => attempt' = 1
        /\ attempt' <= 6
        /\ OutboundAttempt =>
             /\ attempt \in 1..6
             /\ \/ /\ sum_pc' = "loop"
                   /\ call_kind = "chunk"
                   /\ Len(chunk_summaries') = Len(chunk_summaries) + 1
                   /\ attempt' = attempt
                \/ /\ sum_pc' = "returned"
                   /\ call_kind = "final"
                   /\ attempt' = attempt
                \/ /\ sum_pc' = "call"
                   /\ attempt < 6
                   /\ attempt' = attempt + 1
                   /\ chunk_summaries' = chunk_summaries
                \/ /\ sum_pc' = "failed"
                   /\ attempt = 6
      ]_vars

C11_Witness ==
    /\ sum_pc = "failed"
    /\ attempt = 6
    /\ outbound = 6
    /\ chunk_summaries = <<>>

\* A step in which count_tokens raises inside _call_openai (line 63).
CountTokensFailure ==
    /\ sum_pc = "call"
    /\ attempt' = attempt + 1 \/ sum_pc' = "failed"

\* C12: a failure of count_tokens inside _call_openai is never retried: it
\* ends the invocation at once (summarize fails) and _call_openai is not run
\* again for the request.
C12_CountFailureNotRetried ==
    [][ CountTokensFailure => (sum_pc' = "failed" /\ attempt' = attempt) ]_vars

\* C13: once a request has failed terminally (its sixth attempt failed),
\* summarize has failed as a whole: from then on no outbound call is made and
\* no Summary is returned; and a Summary that is returned has the summary of
\* every chunk.
C13_FailureAbortsSummarize ==
    [][ /\ (OutboundAttempt /\ attempt = 6 /\ total_tokens' = total_tokens)
              => sum_pc' = "failed"
        /\ sum_pc = "failed" =>
              /\ sum_pc' = "failed"
              /\ outbound' = outbound
              /\ chunk_summaries' = chunk_summaries
              /\ final_summary' = final_summary
        /\ sum_pc' = "returned" => Len(chunk_summaries') = Len(chunks')
      ]_vars

C13_Witness ==
    /\ sum_pc = "failed"
    /\ call_kind = "chunk"
    /\ attempt = 6
    /\ chunk_i < Len(chunks)
    /\ outbound >= 6

\* The outbound calls that were answered: one per chunk summary, and the
\* consolidation call when summarize has returned its answer.
Answered ==
    Len(chunk_summaries)
    + (IF sum_pc = "returned" /\ call_kind = "final" THEN 1 ELSE 0)

\* C14: when no outbound call fails, summarize on n chunks returns after
\* exactly 1 outbound call if n = 1, and then the final text is that chunk's
\* summary, and after exactly n + 1 outbound calls if n > 1.
C14_OutboundCallCount ==
    (sum_pc = "returned" /\ outbound = Answered) =>
        LET n == Len(chunks)
        IN  /\ n = 1 => /\ outbound = 1
                        /\ call_kind = "chunk"
                        /\ final_summary = chunk_summaries[1]
            /\ n > 1 => outbound = n + 1

C14_Witness ==
    /\ sum_pc = "returned"
    /\ outbound = Answered
    /\ Len(chunks) >= 2
    /\ outbound = Len(chunks) + 1
    /\ final_summary # <<>>

\* Offset in the joined text at which the k-th summary starts.
RECURSIVE JoinedStart(_, _)
JoinedStart(summaries, k) ==
    IF k = 1 THEN 0
    ELSE JoinedStart(summaries, k - 1) + Len(summaries[k - 1]) + 2

\* body is the summaries, each once, in order, a blank line between two.
InOrderBlankLineSeparated(body, summaries) ==
    LET n == Len(summaries)
    IN  /\ n >= 1
        /\ Len(body) = JoinedStart(summaries, n) + Len(summaries[n])
        /\ \A k \in 1..n :
             LET from == JoinedStart(summaries, k)
             IN  /\ SubSeq(body, from + 1, from + Len(summaries[k]))
                      = summaries[k]
                 /\ k < n =>
                      SubSeq(body, from + Len(summaries[k]) + 1,
                             from + Len(summaries[k]) + 2) = <<"\n", "\n">>

\* C15: the consolidation request exists only for more than one chunk and
\* only once every chunk request has returned, and its prompt ends with the
\* summaries of all chunks, each once, in chunk order, separated by a blank
\* line.
C15_ConsolidationInOrder ==
    (call_kind = "final") =>
        /\ Len(chunks) > 1
        /\ chunk_i > Len(chunks)
        /\ Len(chunk_summaries) = Len(chunks)
        /\ Len(prompt) >= 2
        /\ InOrderBlankLineSeparated(SubSeq(prompt, 3, Len(prompt)),
                                     chunk_summaries)

C15_Witness ==
    /\ call_kind = "final"
    /\ sum_pc = "acquire"
    /\ Len(chunk_summaries) >= 2
    /\ chunk_summaries[1] # chunk_summaries[2]
    /\ chunk_summaries[2] # <<>>

\* tokens(prompt) + tokens(response) summed over the chunk requests 1..k.
RECURSIVE ChunkRequestTokens(_)
ChunkRequestTokens(k) ==
    IF k = 0 THEN 0
    ELSE ChunkRequestTokens(k - 1)
         + count_tokens(BuildChunkPrompt(chunks[k], k, Len(chunks)))
         + count_tokens(chunk_summaries[k])

\* C16: the estimated_tokens_used that summarize returns is the sum of
\* tokens(prompt) + tokens(response) over the chunk requests, plus those of
\* the consolidation request when there is one, however many attempts the
\* requests took.
C16_TotalTokens ==
    sum_pc = "returned" =>
        total_tokens =
            ChunkRequestTokens(Len(chunks))
            + (IF call_kind = "final"
               THEN count_tokens(prompt) + count_tokens(final_summary)
               ELSE 0)

C16_Witness ==
    /\ sum_pc = "returned"
    /\ call_kind = "final"
    /\ outbound > Len(chunks) + 1
    /\ final_summary # <<>>
    /\ total_tokens > ChunkRequestTokens(Len(chunks))

\* C10 as stated: the cost _call_openai passes to acquire for a prompt of n
\* tokens is ceil(1.5 * n), the least integer e with 2 * e >= 3 * n.
C10_CostIsCeiling ==
    sum_pc = "acquire" =>
        LET n == count_tokens(prompt)
        IN  2 * tokens["t1"] >= 3 * n /\ 2 * (tokens["t1"] - 1) < 3 * n

\* C10 as amended: the cost _call_openai passes to acquire for a prompt of n
\* tokens is floor(1.5 * n), the greatest integer e with 2 * e <= 3 * n.
C10_CostIsFloor ==
    sum_pc = "acquire" =>
        LET n == count_tokens(prompt)
        IN  2 * tokens["t1"] <= 3 * n /\ 2 * (tokens["t1"] + 1) > 3 * n

C10_Witness ==
    /\ sum_pc = "acquire"
    /\ count_tokens(prompt) % 2 = 1
    /\ 2 * tokens["t1"] + 1 = 3 * count_tokens(prompt)
    /\ pc["t1"] = "idle"
    /\ tokens_used >= tokens["t1"]

(***************************************************************************)
(* Claims about RateLimiter.                                               *)
(***************************************************************************)
\* The tokens of the entries of a log <<time, tokens>> whose time lies in
\* the 60-second interval [from, from + WindowSeconds).
RECURSIVE TokensInWindow(_, _, _)
TokensInWindow(log, from, k) ==
    IF k > Len(log) THEN 0
    ELSE (IF log[k][1] >= from /\ log[k][1] - from < WindowSeconds
          THEN log[k][2] ELSE 0) + TokensInWindow(log, from, k + 1)

\* No 60-second interval holds more than the quota.  An interval with the
\* most tokens can be taken to start at an entry of the log.
WithinQuota(log) ==
    \A i \in 1..Len(log) : TokensInWindow(log, log[i][1], 1) <= tokens_per_minute

\* C5: when every single request is at most tokens_per_minute, the tokens
\* granted inside any interval of 60 seconds never exceed tokens_per_minute.
C5_SlidingWindowQuota ==
    (\A k \in 1..Len(call_log) : call_log[k][2] <= tokens_per_minute)
        => WithinQuota(grant_log)

\* C6: with a thread in acquire and a task in acquire_async on one limiter,
\* tokens_used always equals the tokens granted since the last reset.
C6_AccountingConsistent == tokens_used = granted

\* C7: a call that finds tokens_used + tokens > tokens_per_minute at line 42
\* resets the window before granting, also when the computed wait is 0, so
\* that on return tokens_used is exactly the tokens of that call.
C7_ResetBeforeGrant ==
    [][\A c \in Callers :
          (pc[c] = "store" /\ pc'[c] = "idle" /\ over_quota[c])
              => (cycles[c] >= 1 /\ tokens_used' = tokens[c])]_vars

\* C8: a single caller whose calls never put more than tokens_per_minute
\* into any 60-second window is never suspended in acquire.
C8_WithinQuotaNeverSleeps ==
    WithinQuota(call_log) => \A c \in Callers : pc[c] # "sleep" /\ cycles[c] = 0

C8_Witness ==
    /\ WithinQuota(call_log)
    /\ ncalls["t1"] = 2
    /\ Len(call_log) = 2
    /\ call_log[1][2] + call_log[2][2] > tokens_per_minute
    /\ call_log[2][1] - call_log[1][1] = WindowSeconds
    /\ tokens_used = call_log[2][2]

\* Every call of acquire returns (checked under SpecBlockingFair).
AcquireReturns == \A p \in Threads : (pc[p] # "idle") ~> (pc[p] = "idle")

\* C9: a request larger than tokens_per_minute goes through exactly one
\* wait-and-reset cycle before it is granted.
C9_OversizeOneCycle ==
    [][\A c \in Callers :
          (pc[c] = "store" /\ pc'[c] = "idle" /\ tokens[c] > tokens_per_minute)
              => cycles[c] = 1]_vars

(***************************************************************************)
(* Claims about segment_text, checked under SpecSegment.                   *)
(***************************************************************************)
\* The frames taken one by one and segment_text taken as a whole agree.
SegmentTextResultAgrees ==
    LET r == SegmentTextResult(text, max_tokens, response_buffer,
                               context_buffer, previous_context)
    IN  /\ seg_pc = "done" => (r.ok /\ r.chunks = segments)
        /\ seg_pc = "recursion_error" => ~r.ok

Flatten(parts) ==
    LET RECURSIVE Cat(_)
        Cat(k) == IF k > Len(parts) THEN <<>> ELSE parts[k] \o Cat(k + 1)
    IN  Cat(1)

AllWhitespace(t) == \A i \in 1..Len(t) : t[i] \in Whitespace

\* parts, in order, are disjoint consecutive pieces of t, and everything
\* of t outside them is whitespace.
RECURSIVE Covers(_, _)
Covers(parts, t) ==
    IF parts = <<>> THEN AllWhitespace(t)
    ELSE LET c == Head(parts)
         IN  \E k \in 0..(Len(t) - Len(c)) :
                /\ AllWhitespace(SubSeq(t, 1, k))
                /\ SubSeq(t, k + 1, k + Len(c)) = c
                /\ Covers(Tail(parts), SubSeq(t, k + Len(c) + 1, Len(t)))

\* A chunk that cannot be cut any smaller: one character, or one token.
Irreducible(c) == Len(c) <= 1 \/ count_tokens(c) <= 1

\* C1: when segment_text had to split, every chunk it returns has at most
\* available = max_tokens - total_reserve tokens, unless the chunk is a
\* single irreducible unit.
C1_ChunksWithinBudget ==
    (seg_pc = "done" /\ depth > 0) =>
        \A k \in 1..Len(segments) :
            count_tokens(segments[k]) <= available_tokens \/ Irreducible(segments[k])

\* C2: each recursive step of _binary_search_split cuts off a prefix of
\* strictly positive length: the text handed to the next frame is strictly
\* shorter than the text of this frame, for every text and every budget.
C2_StrictProgress ==
    [][(seg_pc = "split" /\ seg_pc' = "split") => Len(remaining') < Len(remaining)]_vars

\* C3: when segment_text had to split, the returned chunks in their order are
\* consecutive pieces of the original text and only whitespace lies between
\* and around them: nothing else is lost, duplicated or reordered.
C3_ChunksReassemble ==
    (seg_pc = "done" /\ depth > 0) => Covers(segments, text)

C3_Witness ==
    /\ seg_pc = "done"
    /\ depth > 1
    /\ Len(segments) >= 2
    /\ Len(Flatten(segments)) < Len(text)
    /\ \E k \in 1..Len(segments) : \E i \in 1..Len(segments[k]) :
            segments[k][i] \in Whitespace

\* C4: without previous context, a text with at most
\* max_tokens - response_buffer tokens comes back as the one chunk <<text>>,
\* untrimmed, and no frame of _binary_search_split is entered.
C4_FitsIsSingleChunk ==
    (seg_pc # "call" /\ previous_context = <<>>
        /\ count_tokens(text) <= max_tokens - response_buffer) =>
        (seg_pc = "done" /\ segments = <<text>> /\ depth = 0)

C4_Witness ==
    /\ seg_pc = "done"
    /\ previous_context = <<>>
    /\ count_tokens(text) = max_tokens - response_buffer
    /\ Strip(text) # text
    /\ segments = <<text>>

(***************************************************************************)
(* Claims about event detection, checked under SpecCalendar.               *)
(***************************************************************************)
\* Whether sub occurs in str as a contiguous part.
Contains(str, sub) ==
    \E i \in 0..(Len(str) - Len(sub)) : SubSeq(str, i + 1, i + Len(sub)) = sub

\* The arguments of the generate_calendar_link call in progress or last made.
LinkCall ==
    IF cal_op = "generate_calendar_link" THEN cal_text[1]
    ELSE matches[match_i]

\* The day after a date.
NextDay(date) ==
    IF date[3] < DaysInMonth(date[1], date[2])
    THEN <<date[1], date[2], date[3] + 1>>
    ELSE IF date[2] < 12 THEN <<date[1], date[2] + 1, 1>>
    ELSE <<date[1] + 1, 1, 1>>

\* start + duration as a time addition, for a duration of at most 24 hours:
\* the end as strftime prints it.
EndStr(date, time, duration) ==
    IF time[1] + duration < 24
    THEN Strftime(date, <<time[1] + duration, time[2]>>)
    ELSE Strftime(NextDay(date), <<time[1] + duration - 24, time[2]>>)

\* C17: for every valid start date and time generate_calendar_link succeeds,
\* and its link carries end = start + duration_hours as a time addition (an
\* event starting at 23:xx ends on the next day).
C17_EndIsStartPlusDuration ==
    /\ cal_pc = "ValueError" => ~Strptime(LinkCall.date, LinkCall.time)
    /\ (cal_op = "generate_calendar_link" /\ cal_pc = "returned") =>
           Contains(cal_result,
                    EndStr(LinkCall.date, LinkCall.time, duration_hours))
    /\ \A k \in 1..Len(events) :
           Contains(events[k].href,
                    EndStr(events[k].date, events[k].time,
                           DefaultDurationHours))

\* C18: when a text has several matched events and the date or time of one
\* cannot be parsed, detect_events and replace_events_with_links do not fail
\* as a whole on that event.
C18_BadEventOnlyLosesItsLink ==
    ~ ( /\ cal_op \in {"detect_events", "replace_events_with_links"}
        /\ cal_pc = "ValueError"
        /\ Len(matches) >= 2
        /\ ~Strptime(LinkCall.date, LinkCall.time) )

DatesKey == <<"d", "a", "t", "e", "s", "=">>

\* The start and end that detect_events puts into the link of an event.
EventStartStr(e) == Strftime(e.date, e.time)
EventEndStr(e) ==
    Strftime(e.date, <<e.time[1] + DefaultDurationHours, e.time[2]>>)

\* dates=20240510T090000/20240510T100000 and the same with the slash
\* percent-encoded.
ExampleStart ==
    <<"2", "0", "2", "4", "0", "5", "1", "0", "T",
      "0", "9", "0", "0", "0", "0">>
ExampleEnd ==
    <<"2", "0", "2", "4", "0", "5", "1", "0", "T",
      "1", "0", "0", "0", "0", "0">>
IsExample(e) == e.date = <<2024, 5, 10>> /\ e.time = <<9, 0>>

\* C19 as stated: the link detect_events generates for an event contains
\* dates=<start>/<end>, the two timestamps separated by an unencoded slash.
C19_DatesLiteralSlash ==
    \A k \in 1..Len(events) :
        /\ Contains(events[k].href,
                    DatesKey \o EventStartStr(events[k]) \o <<"/">>
                    \o EventEndStr(events[k]))
        /\ IsExample(events[k]) =>
               Contains(events[k].href,
                        DatesKey \o ExampleStart \o <<"/">> \o ExampleEnd)

\* C19 as amended: every link detect_events generates contains
\* dates=<start>%2F<end>: the slash between the two timestamps is
\* percent-encoded, and nowhere after the "?" of the link is there a "/".
C19_DatesEncodedSlash ==
    \A k \in 1..Len(events) :
        /\ Contains(events[k].href,
                    DatesKey \o EventStartStr(events[k]) \o <<"%", "2", "F">>
                    \o EventEndStr(events[k]))
        /\ IsExample(events[k]) =>
               Contains(events[k].href,
                        DatesKey \o ExampleStart \o <<"%", "2", "F">>
                        \o ExampleEnd)
        /\ ~Contains(events[k].href, <<"/">>)

C19_Witness ==
    /\ cal_op = "detect_events"
    /\ cal_pc = "returned"
    /\ Len(cal_result) = 1
    /\ IsExample(cal_result[1])
    /\ Contains(cal_result[1].href,
                DatesKey \o ExampleStart \o <<"%", "2", "F">> \o ExampleEnd)

(***************************************************************************)
(* Claim about tokens_remaining, checked under SpecSingleCaller.           *)
(***************************************************************************)
\* A step of the single caller that is a tokens_remaining query: the caller
\* is outside acquire before and after it and the clock does not move.
RemainingQuery ==
    /\ pc["t1"] = "idle"
    /\ pc'["t1"] = "idle"
    /\ now' = now

\* C20: tokens_remaining applies the rotation check and then returns
\* max(0, tokens_per_minute - _tokens_used), which is never negative; it
\* changes the window only when at least 60 seconds have passed since
\* _window_start, and then to an empty window starting now.
C20_TokensRemaining ==
    [][ RemainingQuery =>
          /\ last_remaining' >= 0
          /\ last_remaining' =
                 (IF tokens_per_minute - tokens_used' > 0
                  THEN tokens_per_minute - tokens_used' ELSE 0)
          /\ IF now - window_start >= 60
             THEN tokens_used' = 0 /\ window_start' = now
             ELSE tokens_used' = tokens_used /\ window_start' = window_start
      ]_vars

C20_Witness ==
    /\ pc["t1"] = "idle"
    /\ tokens_used > 0
    /\ tokens_used < tokens_per_minute
    /\ last_remaining = tokens_per_minute - tokens_used
    /\ window_start > 0

(***************************************************************************)
(* Claim about segment_text with a previous context, under SpecSegment.    *)
(***************************************************************************)
\* segment_text has returned the whole text from line 65, without entering
\* _binary_search_split.
ReturnedWhole == seg_pc = "done" /\ depth = 0 /\ segments = <<text>>

\* C21 as stated: with a non-empty previous_context, segment_text returns the
\* whole text as a single chunk exactly when tokens(text) +
\* tokens(previous_context) <= max_tokens - (response_buffer +
\* context_buffer), the reserve total that also gives available.
C21_SingleChunkTestUsesTotalReserve ==
    (seg_pc # "call" /\ previous_context # <<>>) =>
        (ReturnedWhole <=>
            count_tokens(text) + count_tokens(previous_context)
                <= max_tokens - (response_buffer + context_buffer))

\* C21 as amended: with a non-empty previous_context, segment_text returns
\* the whole text as a single chunk from its first test exactly when
\* tokens(text) + tokens(previous_context) <= max_tokens - response_buffer;
\* context_buffer is not part of that test, and enters only available =
\* max_tokens - (response_buffer + context_buffer), with which the text is
\* split otherwise.
C21_SingleChunkTestUsesResponseReserve ==
    (seg_pc # "call" /\ previous_context # <<>>) =>
        /\ ReturnedWhole <=>
              count_tokens(text) + count_tokens(previous_context)
                  <= max_tokens - response_buffer
        /\ ~ReturnedWhole =>
              available_tokens
                  = max_tokens - (response_buffer + context_buffer)

C21_Witness ==
    /\ previous_context # <<>>
    /\ ReturnedWhole
    /\ context_buffer > 0
    /\ count_tokens(text) + count_tokens(previous_context)
           <= max_tokens - response_buffer
    /\ count_tokens(text) + count_tokens(previous_context)
           > max_tokens - (response_buffer + context_buffer)
    /\ Len(text) > 1

(***************************************************************************)
(* Claim about concurrent callers of acquire, under SpecBlocking.          *)
(***************************************************************************)
\* From line 39 to the end of line 52 a thread is inside the with block.
InsideWith(p) == pc[p] # "idle"

\* C22: the blocking calls are serialized.  While one thread is inside
\* acquire (its check, its sleep, its reset or its increment) it holds
\* _lock, no other thread is inside acquire, and no other thread can enter
\* acquire or tokens_remaining; a step taken while a thread sleeps leaves
\* every other thread where it is, returns no tokens_remaining value, and
\* changes the window only as the reset of the waking sleeper itself; and
\* _tokens_used is at all times the sum of the grants since the last reset.
C22_AcquireSerialized ==
    /\ [](\A p \in Threads :
            InsideWith(p) =>
                /\ lock = p
                /\ \A q \in Threads \ {p} :
                     /\ ~InsideWith(q)
                     /\ ~ENABLED TokensRemaining(q)
                     /\ \A n \in Requests : ~ENABLED AcquireEnter(q, n))
    /\ [](tokens_used = granted)
    /\ [][ \A p \in Threads :
             pc[p] = "sleep" =>
                 /\ \A q \in Threads \ {p} :
                        pc'[q] = pc[q] /\ ncalls'[q] = ncalls[q]
                 /\ last_remaining' = last_remaining
                 /\ pc'[p] = "sleep" =>
                        /\ tokens_used' = tokens_used
                        /\ window_start' = window_start
         ]_vars

C22_Witness ==
    /\ pc["t1"] = "sleep"
    /\ now < wake_at["t1"]
    /\ lock = "t1"
    /\ tokens_used > 0
    /\ pc["t2"] = "idle"
    /\ ncalls["t2"] = 1

(***************************************************************************)
(* Claim about the grants of a request, under Spec.                        *)
(***************************************************************************)
\* _call_openai stands between lines 64 and 68: its acquire has returned and
\* chat.completions.create has not been called yet.
GrantedNotSent == sum_pc = "acquire" /\ pc["t1"] = "idle"

\* C23: every outbound attempt, the first and each retry, is preceded by its
\* own completed acquire of the estimated cost.  The acquire calls returned
\* so far are the outbound attempts made so far, plus the one whose attempt
\* is about to be sent; an attempt is sent only with such a grant at hand;
\* and each grant adds the cost of the prompt to _tokens_used.
C23_GrantPerAttempt ==
    /\ [](ncalls["t1"] = outbound + (IF GrantedNotSent THEN 1 ELSE 0))
    /\ [][ /\ OutboundAttempt =>
                (GrantedNotSent /\ ncalls["t1"] = outbound + 1)
           /\ (pc["t1"] = "store" /\ pc'["t1"] = "idle") =>
                /\ sum_pc = "acquire"
                /\ tokens_used' - tokens_used
                       = (3 * count_tokens(prompt)) \div 2
         ]_vars

C23_Witness ==
    /\ sum_pc = "returned"
    /\ call_kind = "chunk"
    /\ attempt = 3
    /\ outbound = 3
    /\ ncalls["t1"] = 3

(***************************************************************************)
(* Claim about the window of a RateLimiter shared by two threads, under    *)
(* SpecBlocking.                                                           *)
(***************************************************************************)
\* A step that sets _tokens_used back to 0: the rotation of
\* _reset_if_needed, which moves _window_start, or the reset after a sleep.
WindowReset ==
    \/ window_start' # window_start
    \/ \E c \in Callers : pc[c] = "sleep" /\ pc'[c] # "sleep"

\* A step in which a caller enters acquire, acquire_async or
\* tokens_remaining.
WindowEntry ==
    \/ \E c \in Callers : pc[c] = "idle" /\ pc'[c] = "check"
    \/ pc' = pc /\ now' = now

====
